---- MODULE Spec2Model ----
(***************************************************************************)
(* Model of the ensemble scoring and verdict engine of is-it-real          *)
(* (scoring module: calculateVariance, calculateEnsembleScore,             *)
(* determineVerdict, verifyContent).                                       *)
(*                                                                         *)
(* Number representation (exact rational arithmetic, no floating point):   *)
(*   - a detector score is an integer count of 1/Unit points, so 33.335    *)
(*     is 6667 and 100 is 20000; Unit is twice the rounding factor of      *)
(*     Math.round(x * 100) / 100, so that inputs finer than the rounding   *)
(*     step exist;                                                         *)
(*   - a weight is an integer count of thousandths (0.075 is 75);          *)
(*   - a detector confidence and every value the code rounds with          *)
(*     Math.round(x * 100) / 100 (returned score, variance, confidence,    *)
(*     audit weight) is an integer count of hundredths.                    *)
(* Math.round is modelled on the exact quotient (halves round up); the     *)
(* standard deviation is kept as sqrt(radicand) / divisor and only its     *)
(* rounded values are evaluated.                                           *)
(***************************************************************************)
EXTENDS Integers, Sequences, FiniteSets, TLC

\* the scoring engine: arguments and results of the last call
VARIABLES provenanceResult, detectorResults, ensembleResult, verdict, op
\* calculateVariance called on its own: argument and result
VARIABLES givenScores, returnedVariance
\* the verifier component: React state (file, stage, loading, error, and
\* result as verifyResult),
\* the position of the verify run in flight (pc), its provenanceResult local
\* (checkedProvenance), the promises of the detector fan-out (calls), the
\* credentials of the deployment (apiKeys), the file the run in flight works
\* on (runFile: the file verify's closure holds) and the number of
\* fetchImageAsFile calls in flight (urlFetches)
VARIABLES file, stage, loading, error, verifyResult, pc, checkedProvenance, calls, apiKeys
VARIABLES runFile, urlFetches
\* a caller that uses the engine repeatedly: the clock new Date() reads and a
\* call the caller has kept (arguments and returned object)
VARIABLES clock, earlier

engineVars == <<provenanceResult, detectorResults, ensembleResult, verdict, op>>
varianceVars == <<givenScores, returnedVariance>>
verifierVars ==
  <<file, stage, loading, error, verifyResult, pc, checkedProvenance, calls, apiKeys,
    runFile, urlFetches>>
sessionVars == <<clock, earlier>>
vars == <<engineVars, varianceVars, verifierVars, sessionVars>>

\* ---------------------------------------------------------------- bounds
\* longest list of detector results handed to the engine
MaxResults == 4
\* longest list of scores handed to calculateVariance on its own
MaxScores == 3
\* number of different files a user drops
MaxFiles == 2
\* number of image fetches by URL in flight at a time
MaxFetches == 1
\* number of calls one caller makes in a row
MaxCalls == 3

\* ------------------------------------------------------------- constants
\* results[].score may be null (unavailable detector) or missing
NULL == -1
UNDEFINED == -2

\* Math.round(x * 100) / 100 : hundredths per unit
Cent == 100
\* score units per point
Unit == 2 * Cent
\* weight units per 1.0
Milli == 10 * Cent

DETECTOR_WEIGHTS ==
  [vision_council |-> 500, hive |-> 200, sightengine |-> 150,
   heuristics |-> 100, illuminarty |-> 50]

THRESHOLDS ==
  [LIKELY_AUTHENTIC |-> 30, UNCERTAIN_LOW |-> 30, UNCERTAIN_HIGH |-> 70,
   LIKELY_SYNTHETIC |-> 70, VARIANCE_MODERATE |-> 15, VARIANCE_HIGH |-> 25]

VERDICTS ==
  [VERIFIED_AUTHENTIC |-> "VERIFIED_AUTHENTIC",
   LIKELY_AUTHENTIC |-> "LIKELY_AUTHENTIC",
   UNCERTAIN |-> "UNCERTAIN",
   LIKELY_SYNTHETIC |-> "LIKELY_SYNTHETIC",
   INCONCLUSIVE |-> "INCONCLUSIVE"]

\* ---------------------------------------------------------------- helpers
Min(S) == CHOOSE x \in S : \A y \in S : x <= y

RECURSIVE SqrtSearch(_, _, _)
SqrtSearch(n, lo, hi) ==
  IF lo >= hi THEN lo
  ELSE LET mid == (lo + hi + 1) \div 2
       IN IF mid * mid <= n THEN SqrtSearch(n, mid, hi)
          ELSE SqrtSearch(n, lo, mid - 1)

\* floor and ceiling of Math.sqrt(n)
FloorSqrt(n) == SqrtSearch(n, 0, 46340)
CeilSqrt(n) == LET r == FloorSqrt(n) IN IF r * r = n THEN r ELSE r + 1

\* ceiling of 2 * Math.sqrt(n)
CeilTwiceSqrt(n) ==
  LET r == FloorSqrt(n)
  IN IF r * r = n THEN 2 * r
     ELSE IF n - r * r <= r THEN 2 * r + 1
     ELSE 2 * r + 2

\* Math.round(num / den) for num >= 0, den > 0 (halves round up)
MathRound(num, den) == (2 * num + den) \div (2 * den)

RECURSIVE SumSeq(_)
SumSeq(s) == IF s = <<>> THEN 0 ELSE Head(s) + SumSeq(Tail(s))

\* --------------------------------------------------------- calculateVariance
\* sum over i of (s[i] - mean)^2, times Len(s): equals the sum over pairs
\* i < j of (s[i] - s[j])^2, which needs no fractions
SquaredDiffs(scores) ==
  LET n == Len(scores)
      pairs == {p \in (1..n) \X (1..n) : p[1] < p[2]}
      Sq(p) == (scores[p[1]] - scores[p[2]]) * (scores[p[1]] - scores[p[2]])
      RECURSIVE Acc(_)
      Acc(P) == IF P = {} THEN 0
                ELSE LET p == CHOOSE q \in P : TRUE IN Sq(p) + Acc(P \ {p})
  IN Acc(pairs)

\* a slip in the length guard: two scores are also taken as no disagreement
calculateVariance_ShortIsZero(scores) ==
  IF Len(scores) <= 2 THEN [radicand |-> 0, divisor |-> 1]
  ELSE [radicand |-> SquaredDiffs(scores), divisor |-> Len(scores)]

\* the standard deviation sqrt(radicand) / divisor, in score units
calculateVariance(scores) ==
  IF Len(scores) = 0 THEN [radicand |-> 0, divisor |-> 1]
  ELSE IF Len(scores) = 1 THEN [radicand |-> 0, divisor |-> 1]
  ELSE [radicand |-> SquaredDiffs(scores), divisor |-> Len(scores)]

\* --------------------------------------------------- calculateEnsembleScore
\* a slip that forgets the undefined test
IsAvailable_NullOnly(r) == r.score # NULL

\* r.score !== null && r.score !== undefined
IsAvailable(r) == r.score # NULL /\ r.score # UNDEFINED

\* a slip that skips the filter, so a missing score enters the sums
Available_Unfiltered(results) == results

\* results.filter(...)
Available(results) == SelectSeq(results, IsAvailable)

\* DETECTOR_WEIGHTS[source] || 0.10
DefaultWeight(source) ==
  IF source \in DOMAIN DETECTOR_WEIGHTS THEN DETECTOR_WEIGHTS[source]
  ELSE Milli \div 10

\* a slip that drops the confidence test of the dominant signal
VisionIsConfident_AnyConfidence(available) ==
  LET found == {i \in DOMAIN available : available[i].source = "vision_council"}
  IN /\ found # {}
     /\ LET visionCouncil == available[Min(found)]
        IN visionCouncil.score >= 75 * Unit \/ visionCouncil.score <= 25 * Unit

\* available.find(r => r.source === 'vision_council') && confidence >= 0.80
\*   && (score >= 75 || score <= 25)
VisionIsConfident(available) ==
  LET found == {i \in DOMAIN available : available[i].source = "vision_council"}
  IN /\ found # {}
     /\ LET visionCouncil == available[Min(found)]
        IN /\ visionCouncil.confidence >= 80
           /\ (visionCouncil.score >= 75 * Unit \/ visionCouncil.score <= 25 * Unit)

\* a slip that leaves the other sources at their default weight under the boost
EffectiveWeight_NoHalving(result, visionIsConfident) ==
  IF visionIsConfident /\ result.source = "vision_council" THEN 7 * (Milli \div 10)
  ELSE DefaultWeight(result.source)

\* a slip that halves every other source whether or not the boost triggered
EffectiveWeight_AlwaysHalved(result, visionIsConfident) ==
  IF visionIsConfident /\ result.source = "vision_council" THEN 7 * (Milli \div 10)
  ELSE IF result.source = "vision_council" THEN DefaultWeight(result.source)
  ELSE DefaultWeight(result.source) \div 2

\* a slip that halves the primary's weight along with the others
EffectiveWeight_AllHalved(result, visionIsConfident) ==
  IF visionIsConfident THEN DefaultWeight(result.source) \div 2
  ELSE DefaultWeight(result.source)

\* the weight of one result inside the loop (and again in the audit)
EffectiveWeight(result, visionIsConfident) ==
  IF visionIsConfident /\ result.source = "vision_council" THEN 7 * (Milli \div 10)
  ELSE IF visionIsConfident THEN DefaultWeight(result.source) \div 2
  ELSE DefaultWeight(result.source)

\* weightedSum += result.score * weight
WeightedSum(available, visionIsConfident) ==
  SumSeq([i \in DOMAIN available |->
            available[i].score * EffectiveWeight(available[i], visionIsConfident)])

\* a slip that normalizes by the default weights while the sum uses the boosted ones
TotalWeight_Default(available, visionIsConfident) ==
  SumSeq([i \in DOMAIN available |-> DefaultWeight(available[i].source)])

\* totalWeight += weight
TotalWeight(available, visionIsConfident) ==
  SumSeq([i \in DOMAIN available |->
            EffectiveWeight(available[i], visionIsConfident)])

\* a slip that truncates the score to two decimals
RoundedScore_Truncated(weightedSum, totalWeight) ==
  IF totalWeight > 0 THEN weightedSum \div (totalWeight * (Unit \div Cent))
  ELSE 0

\* Math.round(ensembleScore * 100) / 100, ensembleScore = weightedSum / totalWeight
\* (0 when totalWeight is 0); weightedSum is in score units x weight units
RoundedScore(weightedSum, totalWeight) ==
  IF totalWeight > 0 THEN MathRound(weightedSum, totalWeight * (Unit \div Cent))
  ELSE 0

\* Math.round(variance * 100) / 100 for variance = sqrt(radicand) / divisor:
\* floor(sqrt(r) / (2d) + 1/2) = floor((floor(sqrt(r)) + d) / (2d))
RoundedVariance(sd) ==
  (FloorSqrt(sd.radicand) + sd.divisor) \div ((Unit \div Cent) * sd.divisor)

\* a slip that spreads the confidence over 100 points of variance, not 50
RoundedConfidence_PerHundred(sd) ==
  LET full == 100 * Unit * sd.divisor
      g == full \div Cent
  IN IF CeilSqrt(sd.radicand) > full THEN 0
     ELSE ((2 * Cent + 1) * g - 2 * CeilSqrt(sd.radicand)) \div (2 * g)

\* Math.round(Math.max(0, 1 - variance / 50) * 100) / 100:
\* floor(100.5 - sqrt(r) / g) = floor((201 g - ceil(2 sqrt(r))) / (2 g)),
\* g = 100 d the score units of half a hundredth of confidence
RoundedConfidence(sd) ==
  LET full == 50 * Unit * sd.divisor
      g == full \div Cent
  IN IF CeilSqrt(sd.radicand) > full THEN 0
     ELSE ((2 * Cent + 1) * g - CeilTwiceSqrt(sd.radicand)) \div (2 * g)

\* one record of audit.detectors
AuditDetector(r, visionIsConfident) ==
  [source |-> r.source,
   score |-> r.score,
   weight |-> MathRound(EffectiveWeight(r, visionIsConfident) * Cent, Milli),
   confidence |-> r.confidence]

\* a slip that collects the weighted scores for the variance
Scores_Weighted(available) ==
  [i \in DOMAIN available |->
     (available[i].score * DefaultWeight(available[i].source)) \div Milli]

\* scores.push(result.score)
Scores(available) == [i \in DOMAIN available |-> available[i].score]

calculateEnsembleScore(results) ==
  LET available == Available(results)
  IN IF Len(available) = 0
     THEN [score |-> NULL, variance |-> NULL, confidence |-> 0,
           availableDetectors |-> 0,
           audit |-> [detectors |-> <<>>,
                      note |-> "No detector results available"]]
     ELSE
       LET visionIsConfident == VisionIsConfident(available)
           weightedSum == WeightedSum(available, visionIsConfident)
           totalWeight == TotalWeight(available, visionIsConfident)
           scores == Scores(available)
           variance == calculateVariance(scores)
       IN [score |-> RoundedScore(weightedSum, totalWeight),
           variance |-> RoundedVariance(variance),
           confidence |-> RoundedConfidence(variance),
           availableDetectors |-> Len(available),
           visionCouncilDominant |-> visionIsConfident,
           audit |-> [detectors |-> [i \in DOMAIN available |->
                                       AuditDetector(available[i], visionIsConfident)],
                      weights |-> DETECTOR_WEIGHTS,
                      calculation |-> [weightedSum |-> weightedSum,
                                       totalWeight |-> totalWeight,
                                       visionCouncilBoosted |-> visionIsConfident]]]

\* ------------------------------------------------------------ determineVerdict
\* provenanceResult?.hasCredentials && provenanceResult?.isValid
\* (a null provenanceResult is the record [isNull |-> TRUE])
ProvenanceVerified(provenanceResultArg) ==
  /\ ~provenanceResultArg.isNull
  /\ provenanceResultArg.hasCredentials
  /\ provenanceResultArg.isValid

\* a slip that tests the score for undefined instead of null
NoSignal_Undefined(e) == e.score = UNDEFINED

\* score === null
NoSignal(e) == e.score = NULL

\* a slip that makes the disagreement threshold inclusive
HighVariance_Inclusive(e) == e.variance >= THRESHOLDS.VARIANCE_HIGH * Cent

\* variance > THRESHOLDS.VARIANCE_HIGH
HighVariance(e) == e.variance > THRESHOLDS.VARIANCE_HIGH * Cent

\* a slip that drops the variance conjunct of the low-score rule
LowScoreLowVariance_AnyVariance(e) == e.score < THRESHOLDS.LIKELY_AUTHENTIC * Cent

\* score < THRESHOLDS.LIKELY_AUTHENTIC && variance < THRESHOLDS.VARIANCE_MODERATE
LowScoreLowVariance(e) ==
  /\ e.score < THRESHOLDS.LIKELY_AUTHENTIC * Cent
  /\ e.variance < THRESHOLDS.VARIANCE_MODERATE * Cent

\* a slip that makes the high-score threshold inclusive
HighScoreLowVariance_Inclusive(e) ==
  /\ e.score >= THRESHOLDS.LIKELY_SYNTHETIC * Cent
  /\ e.variance < THRESHOLDS.VARIANCE_MODERATE * Cent

\* score > THRESHOLDS.LIKELY_SYNTHETIC && variance < THRESHOLDS.VARIANCE_MODERATE
HighScoreLowVariance(e) ==
  /\ e.score > THRESHOLDS.LIKELY_SYNTHETIC * Cent
  /\ e.variance < THRESHOLDS.VARIANCE_MODERATE * Cent

\* the object each branch returns (explanation text and timestamps left out)
VerdictObject(v, c, rec, auditTrail, ensembleResultArg, provenanceResultArg) ==
  [verdict |-> v, confidence |-> c, recommendation |-> rec,
   factors |-> [provenance |-> provenanceResultArg, detection |-> ensembleResultArg],
   auditTrail |-> auditTrail]

\* Priority 2: ensemble detection
DetectionVerdict(ensembleResultArg, provenanceResultArg) ==
  IF NoSignal(ensembleResultArg)
  THEN VerdictObject(VERDICTS.INCONCLUSIVE, 0,
                     "MANUAL REVIEW - Automated analysis unavailable.",
                     [method |-> "ensemble-fallback", error |-> "No detector results"],
                     ensembleResultArg, provenanceResultArg)
  ELSE IF HighVariance(ensembleResultArg)
  THEN VerdictObject(VERDICTS.INCONCLUSIVE, ensembleResultArg.confidence,
                     "MANUAL REVIEW - Detection signals conflict.",
                     [method |-> "ensemble-variance-check",
                      varianceExceedsThreshold |-> TRUE],
                     ensembleResultArg, provenanceResultArg)
  ELSE IF LowScoreLowVariance(ensembleResultArg)
  THEN VerdictObject(VERDICTS.LIKELY_AUTHENTIC, ensembleResultArg.confidence,
                     "LIKELY SAFE - Low synthetic indicators.",
                     [method |-> "ensemble-threshold",
                      thresholdUsed |-> THRESHOLDS.LIKELY_AUTHENTIC],
                     ensembleResultArg, provenanceResultArg)
  ELSE IF HighScoreLowVariance(ensembleResultArg)
  THEN VerdictObject(VERDICTS.LIKELY_SYNTHETIC, ensembleResultArg.confidence,
                     "CAUTION - Strong synthetic indicators.",
                     [method |-> "ensemble-threshold",
                      thresholdUsed |-> THRESHOLDS.LIKELY_SYNTHETIC],
                     ensembleResultArg, provenanceResultArg)
  ELSE VerdictObject(VERDICTS.UNCERTAIN, ensembleResultArg.confidence,
                     "REVIEW - Ambiguous signals require human judgment.",
                     [method |-> "ensemble-threshold",
                      scoreInRange |->
                        <<THRESHOLDS.UNCERTAIN_LOW, THRESHOLDS.UNCERTAIN_HIGH>>,
                      varianceInRange |->
                        <<THRESHOLDS.VARIANCE_MODERATE, THRESHOLDS.VARIANCE_HIGH>>],
                     ensembleResultArg, provenanceResultArg)

\* a slip that writes the full confidence as a percentage
VerifiedAuthentic_Percent(ensembleResultArg, provenanceResultArg) ==
  VerdictObject(VERDICTS.VERIFIED_AUTHENTIC, 100 * Cent,
                "TRUST - Cryptographically verified provenance.",
                [method |-> "provenance-first"],
                ensembleResultArg, provenanceResultArg)

\* the provenance-first object of Priority 1
VerifiedAuthentic(ensembleResultArg, provenanceResultArg) ==
  VerdictObject(VERDICTS.VERIFIED_AUTHENTIC, Cent,
                "TRUST - Cryptographically verified provenance.",
                [method |-> "provenance-first"],
                ensembleResultArg, provenanceResultArg)

\* a slip that lets detector disagreement outrank the credentials
determineVerdict_DisagreementFirst(ensembleResultArg, provenanceResultArg) ==
  IF ~NoSignal(ensembleResultArg) /\ HighVariance(ensembleResultArg)
  THEN DetectionVerdict(ensembleResultArg, provenanceResultArg)
  ELSE IF ProvenanceVerified(provenanceResultArg)
  THEN VerifiedAuthentic(ensembleResultArg, provenanceResultArg)
  ELSE DetectionVerdict(ensembleResultArg, provenanceResultArg)

determineVerdict(ensembleResultArg, provenanceResultArg) ==
  IF ProvenanceVerified(provenanceResultArg)
  THEN VerifiedAuthentic(ensembleResultArg, provenanceResultArg)
  ELSE DetectionVerdict(ensembleResultArg, provenanceResultArg)

\* --------------------------------------------------------------- verifyContent
\* a slip that reports provenance only for credentials that passed validation
HasProvenance_ValidOnly(provenanceResultArg) ==
  /\ ~provenanceResultArg.isNull
  /\ provenanceResultArg.hasCredentials
  /\ provenanceResultArg.isValid

\* provenanceResult?.hasCredentials || false
HasProvenance(provenanceResultArg) ==
  ~provenanceResultArg.isNull /\ provenanceResultArg.hasCredentials

verifyContent(provenanceResultArg, detectorResultsArg) ==
  LET ensemble == calculateEnsembleScore(detectorResultsArg)
      v == determineVerdict(ensemble, provenanceResultArg)
  IN [verdict |-> v.verdict, confidence |-> v.confidence,
      recommendation |-> v.recommendation, factors |-> v.factors,
      auditTrail |-> v.auditTrail,
      summary |-> [verdict |-> v.verdict,
                   score |-> ensemble.score,
                   variance |-> ensemble.variance,
                   confidence |-> v.confidence,
                   hasProvenance |-> HasProvenance(provenanceResultArg),
                   detectorsUsed |-> ensemble.availableDetectors]]

\* a slip that lets the confidence lapse with the time of the call
verifyContentAt_Lapsing(provenanceResultArg, detectorResultsArg, now) ==
  LET v == verifyContent(provenanceResultArg, detectorResultsArg)
  IN [v EXCEPT !.auditTrail = [timestamp |-> now] @@ v.auditTrail,
               !.confidence = IF now = 0 THEN v.confidence ELSE 0]

\* verifyContent called when new Date() reads now: every branch of
\* determineVerdict stamps its auditTrail
verifyContentAt(provenanceResultArg, detectorResultsArg, now) ==
  LET v == verifyContent(provenanceResultArg, detectorResultsArg)
  IN [v EXCEPT !.auditTrail = [timestamp |-> now] @@ v.auditTrail]

\* ================================================================= detectors
\* An unavailable DetectorResult: score null, confidence 0 and the error text
Unavailable(source, errorText) ==
  [source |-> source, score |-> NULL, confidence |-> 0, error |-> errorText]

\* What a fetch can come to: a rejection (network failure, or a body that
\* response.json() cannot parse) carrying the exception's message, or an HTTP
\* response with its status and the fields the adapters read from the body.
\* Body scores are in 1/Unit points after the adapter's "* 100" (0.92 is
\* 18400); a field the body lacks is 0, which is what "|| 0" makes of it.
Exception(message) ==
  [kind |-> "exception", message |-> message]

HttpResponse(ok, status, ai_generated, yes_deepfake, confidence) ==
  [kind |-> "http", ok |-> ok, status |-> status, ai_generated |-> ai_generated,
   yes_deepfake |-> yes_deepfake, confidence |-> confidence]

Max(a, b) == IF a >= b THEN a ELSE b

\* detectWithHive(imageUrl, apiKey), given whether the key is set and what the
\* fetch comes to
detectWithHive(apiKey, response) ==
  IF ~apiKey THEN Unavailable("hive", "API key not configured")
  ELSE IF response.kind = "exception" THEN Unavailable("hive", response.message)
  ELSE IF ~response.ok THEN Unavailable("hive", "Hive API error: " \o response.status)
  ELSE [source |-> "hive",
        score |-> Max(response.ai_generated, response.yes_deepfake),
        confidence |-> IF response.confidence = 0 THEN 85 ELSE response.confidence]

\* detectWithSightEngine(imageUrl, apiUser, apiSecret)
detectWithSightEngine(apiUser, apiSecret, response) ==
  IF ~apiUser \/ ~apiSecret
  THEN Unavailable("sightengine", "API credentials not configured")
  ELSE IF response.kind = "exception" THEN Unavailable("sightengine", response.message)
  ELSE IF ~response.ok
  THEN Unavailable("sightengine", "SightEngine API error: " \o response.status)
  ELSE [source |-> "sightengine", score |-> response.ai_generated, confidence |-> 90]

\* detectWithIlluminarty(imageUrl, apiKey): a placeholder, never available
detectWithIlluminarty(apiKey) ==
  IF ~apiKey
  THEN Unavailable("illuminarty", "API key not configured (requires partnership)")
  ELSE Unavailable("illuminarty", "Integration pending")

\* imageData.exif: null, or an object with its own keys and its Software text
NoExif == [isNull |-> TRUE]
Exif(keys, software) == [isNull |-> FALSE, keys |-> keys, Software |-> software]

\* imageData; a width or height of 0 also stands for null (both are falsy)
ImageData(width, height, exif) == [width |-> width, height |-> height, exif |-> exif]

aiDimensions ==
  {<<512, 512>>, <<768, 768>>, <<1024, 1024>>, <<1024, 1792>>, <<1792, 1024>>,
   <<512, 768>>, <<768, 512>>, <<1024, 768>>, <<768, 1024>>}

\* software.includes(s) for the lower-cased Software text, on texts that are
\* either a generator's name or contain none
aiSoftware == {"stable diffusion", "midjourney", "dall-e", "firefly", "novelai"}

\* suspicionScore of analyzeHeuristics, in points
SuspicionScore(imageData) ==
  LET exif == imageData.exif
      missing_exif == IF exif.isNull THEN 15 ELSE IF exif.keys = {} THEN 15 ELSE 0
      no_camera_info ==
        IF exif.isNull THEN 0
        ELSE IF "Make" \notin exif.keys /\ "Model" \notin exif.keys THEN 10 ELSE 0
      ai_typical_dimensions ==
        IF imageData.width # 0 /\ imageData.height # 0
           /\ <<imageData.width, imageData.height>> \in aiDimensions
        THEN 20 ELSE 0
      no_gps ==
        IF exif.isNull THEN 0
        ELSE IF "GPSLatitude" \notin exif.keys THEN 5 ELSE 0
      ai_software_detected ==
        IF exif.isNull THEN 0 ELSE IF exif.Software \in aiSoftware THEN 50 ELSE 0
      total == missing_exif + no_camera_info + ai_typical_dimensions + no_gps
               + ai_software_detected
  IN IF total < 100 THEN total ELSE 100

\* a slip that reports no score for an image without EXIF
analyzeHeuristics_NeedsExif(imageData) ==
  IF imageData.exif.isNull THEN Unavailable("heuristics", "No EXIF metadata")
  ELSE [source |-> "heuristics", score |-> SuspicionScore(imageData) * Unit,
        confidence |-> 60]

analyzeHeuristics(imageData) ==
  [source |-> "heuristics", score |-> SuspicionScore(imageData) * Unit, confidence |-> 60]

\* the array runAllDetectors hands to Promise.all, by source
ConfiguredDetectors == <<"hive", "sightengine", "illuminarty", "heuristics">>

\* the promises of one fan-out: a call is not made yet, pending on its fetch,
\* or settled with its DetectorResult; settledAt is 0 for a promise that was
\* resolved without a fetch and otherwise the rank of its fetch's completion
NotCalled == [state |-> "notCalled"]
Pending == [state |-> "pending"]
Settled(value, settledAt) == [state |-> "settled", value |-> value, settledAt |-> settledAt]

NoCalls == [d \in {ConfiguredDetectors[i] : i \in DOMAIN ConfiguredDetectors} |-> NotCalled]

\* runAllDetectors up to its await: the four adapters are called in array
\* order; an adapter with credentials awaits its fetch, the others return
CalledDetectors(imageData, apiKeysArg) ==
  [d \in DOMAIN NoCalls |->
     CASE d = "hive" ->
            IF "hive" \in apiKeysArg THEN Pending
            ELSE Settled(detectWithHive(FALSE, Exception("")), 0)
       [] d = "sightengine" ->
            IF {"sightengineUser", "sightengineSecret"} \subseteq apiKeysArg THEN Pending
            ELSE Settled(detectWithSightEngine("sightengineUser" \in apiKeysArg,
                                               "sightengineSecret" \in apiKeysArg,
                                               Exception("")), 0)
       [] d = "illuminarty" ->
            Settled(detectWithIlluminarty("illuminarty" \in apiKeysArg), 0)
       [] d = "heuristics" ->
            Settled(analyzeHeuristics(imageData), 0)]

\* the adapter's return once its fetch has come to response
AdapterResult(d, apiKeysArg, response) ==
  IF d = "hive" THEN detectWithHive("hive" \in apiKeysArg, response)
  ELSE detectWithSightEngine("sightengineUser" \in apiKeysArg,
                             "sightengineSecret" \in apiKeysArg, response)

\* Promise.all is fulfilled once every promise of the array is
AllSettled(callsArg) == \A d \in DOMAIN callsArg : callsArg[d].state = "settled"

\* a slip that reports only the detectors that answered
runAllDetectors_AvailableOnly(callsArg) ==
  SelectSeq([i \in DOMAIN ConfiguredDetectors |-> callsArg[ConfiguredDetectors[i]].value],
            IsAvailable)

\* the array runAllDetectors resolves to: the results in array order
runAllDetectors(callsArg) ==
  [i \in DOMAIN ConfiguredDetectors |-> callsArg[ConfiguredDetectors[i]].value]

\* ================================================================ provenance
\* a verifyC2PA result
C2PA(hasCredentials, isValid) ==
  [isNull |-> FALSE, hasCredentials |-> hasCredentials, isValid |-> isValid]

\* an extractEXIF result: metadata is an object of the groups camera, datetime,
\* location, image, capture and attribution; imageWidth and imageHeight are
\* metadata.image.width and .height (0 when absent)
ExifResult(hasExif, imageWidth, imageHeight) ==
  [hasExif |-> hasExif, imageWidth |-> imageWidth, imageHeight |-> imageHeight]

ExifMetadata ==
  Exif({"camera", "datetime", "location", "image", "capture", "attribution"}, "")

\* dimensions.width || exifResult.metadata?.image?.width
OrElse(a, b) == IF a # 0 THEN a ELSE b

\* checkProvenance(file), given what its three collaborators resolve to
checkProvenance(c2paResult, exifResult, dimensions) ==
  [isNull |-> FALSE,
   hasVerifiedProvenance |-> c2paResult.hasCredentials /\ c2paResult.isValid,
   c2pa |-> c2paResult,
   imageData |-> ImageData(OrElse(dimensions[1], exifResult.imageWidth),
                           OrElse(dimensions[2], exifResult.imageHeight),
                           IF exifResult.hasExif THEN ExifMetadata ELSE NoExif)]

\* ================================================================== verifier
\* useState(null) for file, result and error
NoFile == 0
NoResult == [isNull |-> TRUE]
NoError == ""
NoProvenance == [isNull |-> TRUE]

\* a slip that takes a failed provenance check for a verified one
DefaultProvenance_Verified ==
  [isNull |-> FALSE,
   hasVerifiedProvenance |-> TRUE,
   c2pa |-> [isNull |-> TRUE],
   imageData |-> ImageData(0, 0, Exif({}, ""))]

\* the provenanceResult verify continues with when checkProvenance throws
DefaultProvenance ==
  [isNull |-> FALSE,
   hasVerifiedProvenance |-> FALSE,
   c2pa |-> [isNull |-> TRUE],
   imageData |-> ImageData(0, 0, Exif({}, ""))]

\* a slip that runs the detectors whatever the provenance check reports
SkipsDetection_Never(provenance) == FALSE

\* if (provenanceResult.hasVerifiedProvenance)
SkipsDetection(provenance) == provenance.hasVerifiedProvenance

\* { hasCredentials: true, isValid: true, ...provenanceResult.c2pa }
SpreadCredentials(c2pa) ==
  IF c2pa.isNull THEN C2PA(TRUE, TRUE) ELSE c2pa

\* the object handed to setResult
ResultObject(provenance, detectors, finalResult) ==
  [isNull |-> FALSE, provenance |-> provenance, detectors |-> detectors,
   verdict |-> finalResult]

\* VerdictDisplay, the "Detectors Used" cell of the metrics row: its value
\* and the caption under it
DetectorsUsedCell(summary) ==
  IF summary.hasProvenance
  THEN [value |-> "C2PA", caption |-> "Verified"]
  ELSE [value |-> ToString(summary.detectorsUsed) \o "/4", caption |-> "Detectors"]

\* the component as mounted, in a deployment with the credentials apiKeysArg
VerifierMounted(apiKeysArg) ==
  /\ file = NoFile
  /\ stage = "idle"
  /\ loading = FALSE
  /\ error = NoError
  /\ verifyResult = NoResult
  /\ pc = "none"
  /\ checkedProvenance = NoProvenance
  /\ calls = NoCalls
  /\ apiKeys = apiKeysArg
  /\ runFile = NoFile
  /\ urlFetches = 0

\* --------------------------------------------------------------------- inputs
\* provenance results handed to the engine: null, no credentials,
\* credentials that failed validation, valid credentials
ProvenanceInputs ==
  {[isNull |-> TRUE],
   [isNull |-> FALSE, hasCredentials |-> FALSE, isValid |-> FALSE],
   [isNull |-> FALSE, hasCredentials |-> TRUE, isValid |-> FALSE],
   [isNull |-> FALSE, hasCredentials |-> TRUE, isValid |-> TRUE]}

Result(source, score, confidence) ==
  [source |-> source, score |-> score, confidence |-> confidence]

\* detector results per source, <<score in 1/Unit points, confidence in hundredths>>:
\* 18400 = 92, 15000 = 75, 14999 = 74.995, 10000 = 50, 8000 = 40,
\* 12000 = 60, 6667 = 33.335, 5999 = 29.995, 5001 = 25.005, 5000 = 25,
\* 4999 = 24.995;
\* gptzero is a source DETECTOR_WEIGHTS does not list
SourceOutputs ==
  [vision_council |-> {<<18400, 85>>, <<18400, 79>>, <<10000, 95>>, <<5000, 80>>,
                       <<5001, 80>>, <<15000, 80>>, <<14999, 95>>, <<NULL, 0>>},
   hive |-> {<<8000, 85>>, <<6667, 85>>, <<5999, 85>>, <<NULL, 0>>},
   sightengine |-> {<<0, 90>>, <<20000, 99>>},
   heuristics |-> {<<12000, 70>>},
   illuminarty |-> {<<UNDEFINED, 0>>},
   gptzero |-> {<<4999, 80>>}]

DetectorInputs ==
  UNION {{Result(src, o[1], o[2]) : o \in SourceOutputs[src]} : src \in DOMAIN SourceOutputs}

\* the order in which a caller lists its sources
SourceOrder ==
  <<"vision_council", "hive", "sightengine", "heuristics", "illuminarty", "gptzero">>

\* lists of at most n results of the sources SourceOrder[k..], in that order
RECURSIVE OrderedLists(_, _)
OrderedLists(k, n) ==
  IF k > Len(SourceOrder) \/ n = 0 THEN {<<>>}
  ELSE OrderedLists(k + 1, n) \cup
       {<<Result(SourceOrder[k], o[1], o[2])>> \o l :
          <<o, l>> \in SourceOutputs[SourceOrder[k]] \X OrderedLists(k + 1, n - 1)}

Reverse(l) == [i \in DOMAIN l |-> l[Len(l) + 1 - i]]

\* lists of at most n results whose sources are pairwise different (source is
\* unique within a run), listed in SourceOrder or in the opposite order
ResultLists(n) ==
  LET ordered == OrderedLists(1, n) IN ordered \cup {Reverse(l) : l \in ordered}

\* ensemble results handed to determineVerdict directly: a grid over
\* score in [0,100] and variance in [0,50] (hundredths), and the no-signal result
GridScores == {0, 1500, 2999, 3000, 3001, 5000, 6999, 7000, 7001, 10000}
GridVariances == {0, 1499, 1500, 1501, 2000, 2499, 2500, 2501, 4000, 5000}
GridConfidences == {0, 50, 100}

EnsembleGrid ==
  {[score |-> NULL, variance |-> NULL, confidence |-> 0]} \cup
  [score : GridScores, variance : GridVariances, confidence : GridConfidences]

NoEnsemble == [none |-> TRUE]
NoVerdict == [none |-> TRUE]

\* score lists handed to calculateVariance on its own (1/Unit points):
\* 0, 10, 11, 12, 90 and 100 points
ScoreValues == {0, 2000, 2200, 2400, 18000, 20000}

RECURSIVE ScoreLists(_)
ScoreLists(n) ==
  IF n = 0 THEN {<<>>}
  ELSE ScoreLists(n - 1) \cup
       {Append(l, v) : <<l, v>> \in {q \in ScoreLists(n - 1) : Len(q) = n - 1} \X ScoreValues}

NoVariance == [none |-> TRUE]

\* the engine before any call, for the specifications that do not call it
EngineIdle ==
  /\ provenanceResult = [isNull |-> TRUE]
  /\ detectorResults = <<>>
  /\ ensembleResult = NoEnsemble
  /\ verdict = NoVerdict
  /\ op = "init"

\* calculateVariance not called on its own
VarianceIdle ==
  /\ givenScores = <<>>
  /\ returnedVariance = NoVariance

\* no caller keeps a call
NoCall == [none |-> TRUE]

SessionIdle ==
  /\ clock = 0
  /\ earlier = NoCall

\* ---------------------------------------------------------------- operations
TypeOK ==
  /\ provenanceResult \in ProvenanceInputs
  /\ op \in {"init", "calculateEnsembleScore", "determineVerdict", "verifyContent"}

Init ==
  /\ provenanceResult \in ProvenanceInputs
  /\ detectorResults \in ResultLists(MaxResults)
  /\ ensembleResult = NoEnsemble
  /\ verdict = NoVerdict
  /\ op = "init"
  /\ VarianceIdle
  /\ VerifierMounted({})
  /\ SessionIdle

\* a caller runs calculateEnsembleScore on the detector results
CallCalculateEnsembleScore ==
  /\ ensembleResult' = calculateEnsembleScore(detectorResults)
  /\ op' = "calculateEnsembleScore"
  /\ UNCHANGED <<provenanceResult, detectorResults, verdict>>
  /\ UNCHANGED <<varianceVars, verifierVars, sessionVars>>

\* a caller runs determineVerdict on an ensemble result it holds
CallDetermineVerdict ==
  /\ "score" \in DOMAIN ensembleResult
  /\ verdict' = determineVerdict(ensembleResult, provenanceResult)
  /\ op' = "determineVerdict"
  /\ UNCHANGED <<provenanceResult, detectorResults, ensembleResult>>
  /\ UNCHANGED <<varianceVars, verifierVars, sessionVars>>

\* a caller runs the whole pipeline, verifyContent
CallVerifyContent ==
  /\ ensembleResult' = calculateEnsembleScore(detectorResults)
  /\ verdict' = verifyContent(provenanceResult, detectorResults)
  /\ op' = "verifyContent"
  /\ UNCHANGED <<provenanceResult, detectorResults>>
  /\ UNCHANGED <<varianceVars, verifierVars, sessionVars>>

Next ==
  \/ CallCalculateEnsembleScore
  \/ CallVerifyContent

Spec == Init /\ [][Next]_vars

\* determineVerdict alone, on every ensemble result of the grid
InitVerdict ==
  /\ provenanceResult \in ProvenanceInputs
  /\ detectorResults = <<>>
  /\ ensembleResult \in EnsembleGrid
  /\ verdict = NoVerdict
  /\ op = "init"
  /\ VarianceIdle
  /\ VerifierMounted({})
  /\ SessionIdle

NextVerdict == CallDetermineVerdict

SpecVerdict == InitVerdict /\ [][NextVerdict]_vars

\* calculateVariance alone, on every score list of at most MaxScores scores
InitVariance ==
  /\ givenScores \in ScoreLists(MaxScores)
  /\ returnedVariance = NoVariance
  /\ EngineIdle
  /\ VerifierMounted({})
  /\ SessionIdle

CallCalculateVariance ==
  /\ returnedVariance' = calculateVariance(givenScores)
  /\ UNCHANGED <<givenScores, engineVars, verifierVars, sessionVars>>

NextVariance == CallCalculateVariance

SpecVariance == InitVariance /\ [][NextVariance]_vars

\* ------------------------------------------------- one caller, several calls
\* the lists a caller hands in: none, an unavailable result, a single result,
\* and pairs that trigger the boost, agree and disagree
SessionLists ==
  {<<>>,
   <<Result("hive", NULL, 0)>>,
   <<Result("hive", 5999, 85)>>,
   <<Result("vision_council", 18400, 85), Result("hive", 8000, 85)>>,
   <<Result("hive", 8000, 85), Result("sightengine", 0, 90)>>,
   <<Result("hive", 6667, 85), Result("sightengine", 20000, 99)>>}

\* a call as the caller keeps it
Call(provenanceResultArg, detectorResultsArg, returned) ==
  [provenance |-> provenanceResultArg, results |-> detectorResultsArg,
   returned |-> returned, otherCallsSince |-> FALSE]

InitSession ==
  /\ EngineIdle
  /\ VarianceIdle
  /\ VerifierMounted({})
  /\ SessionIdle

\* the caller calls verifyContent(p, l); before that it may put the call it
\* made last aside (keep), to compare a later one with it
Request(p, l, keep) ==
  /\ clock < MaxCalls
  /\ provenanceResult' = p
  /\ detectorResults' = l
  /\ ensembleResult' = calculateEnsembleScore(l)
  /\ verdict' = verifyContentAt(p, l, clock)
  /\ op' = "verifyContent"
  /\ clock' = clock + 1
  /\ earlier' =
       IF keep /\ op = "verifyContent"
       THEN Call(provenanceResult, detectorResults, verdict)
       ELSE IF earlier = NoCall THEN earlier
       ELSE [earlier EXCEPT !.otherCallsSince =
               @ \/ provenanceResult # earlier.provenance
                 \/ detectorResults # earlier.results]
  /\ UNCHANGED <<varianceVars, verifierVars>>

NextSession ==
  \E p \in ProvenanceInputs, l \in SessionLists, keep \in BOOLEAN : Request(p, l, keep)

SpecSession == InitSession /\ [][NextSession]_vars

\* ------------------------------------------------------ the verifier component
\* credentials a deployment may have set in its environment
ApiKeyNames == {"hive", "sightengineUser", "sightengineSecret", "illuminarty"}

\* files a user may drop
Files == 1..MaxFiles

\* what the fetch of an adapter can come to: a network failure, a non-OK
\* status, a well-formed body (hive: ai_generated 0.92, yes_deepfake 0.10;
\* sightengine: ai_generated 0.90) and, for hive, a body whose class score
\* 1.8 is not a probability
HiveResponses ==
  {Exception("Failed to fetch"),
   HttpResponse(FALSE, "500", 0, 0, 0),
   HttpResponse(TRUE, "200", 92 * Unit, 10 * Unit, 0),
   HttpResponse(TRUE, "200", 180 * Unit, 0, 95)}

SightEngineResponses ==
  {Exception("Failed to fetch"),
   HttpResponse(FALSE, "429", 0, 0, 0),
   HttpResponse(TRUE, "200", 90 * Unit, 0, 0)}

Responses(d) == IF d = "hive" THEN HiveResponses ELSE SightEngineResponses

\* what the collaborators of checkProvenance can resolve to
C2PAResults == {C2PA(FALSE, FALSE), C2PA(TRUE, FALSE), C2PA(TRUE, TRUE)}
ExifResults == {ExifResult(FALSE, 0, 0), ExifResult(TRUE, 1024, 1024)}
DimensionResults == {<<0, 0>>, <<800, 600>>}

ProvenanceOutcomes ==
  {checkProvenance(c, e, d) : <<c, e, d>> \in C2PAResults \X ExifResults \X DimensionResults}

\* the messages verify and handleDrop hand to setError
Base64Errors ==
  {"Failed to process image. Your device may have limited memory. Try a smaller image.",
   "Failed to process image. Try a smaller file."}

DropErrors ==
  [notImage |-> "Please upload an image file (PNG, JPG, WebP)",
   tooLarge |-> "Image too large and compression failed."]

\* what a drop comes to
DropKinds == {"image", "compressed", "notImage", "tooLarge"}

InitVerifier ==
  /\ \E keys \in SUBSET ApiKeyNames : VerifierMounted(keys)
  /\ EngineIdle
  /\ VarianceIdle
  /\ SessionIdle

\* handleDrop with a dropped file that is no image, that stays too large, or
\* that is accepted, as it is or compressed.  The drop zone is rendered while
\* no file is selected; a file above the size limit is dealt with after
\* "await compressImage", when a file may have been selected meanwhile
HandleDrop(droppedFile, kind) ==
  /\ kind \in {"image", "notImage"} => file = NoFile
  /\ IF kind \in {"image", "compressed"}
     THEN /\ file' = droppedFile
          /\ verifyResult' = NoResult
          /\ error' = NoError
     ELSE /\ error' = DropErrors[kind]
          /\ UNCHANGED <<file, verifyResult>>
  /\ UNCHANGED <<stage, loading, pc, checkedProvenance, calls, apiKeys>>
  /\ UNCHANGED <<runFile, urlFetches>>
  /\ UNCHANGED <<engineVars, varianceVars, sessionVars>>

\* the message fetchImageAsFile hands to setError
UrlErrors ==
  {"Could not load image from URL. It may be private or invalid."}

\* handleUrlVerify up to "await fetchImageAsFile(imageUrl)"; the button is
\* rendered while no file is selected and disabled while loading
HandleUrlVerify ==
  /\ file = NoFile
  /\ ~loading
  /\ urlFetches < MaxFetches
  /\ error' = NoError
  /\ verifyResult' = NoResult
  /\ file' = NoFile
  /\ urlFetches' = urlFetches + 1
  /\ UNCHANGED <<stage, loading, pc, checkedProvenance, calls, apiKeys, runFile>>
  /\ UNCHANGED <<engineVars, varianceVars, sessionVars>>

\* handleUrlVerify from the settling of fetchImageAsFile: the image fetched is
\* set as the file, or the fetch failed and fetchImageAsFile has set the error
UrlFetchSettles(fetched, imageFile, message) ==
  /\ urlFetches > 0
  /\ urlFetches' = urlFetches - 1
  /\ IF fetched
     THEN /\ file' = imageFile
          /\ UNCHANGED error
     ELSE /\ error' = message
          /\ UNCHANGED file
  /\ UNCHANGED <<stage, loading, verifyResult, pc, checkedProvenance, calls, apiKeys, runFile>>
  /\ UNCHANGED <<engineVars, varianceVars, sessionVars>>

\* reset ("Remove image" and "Verify Another Image"): both buttons are
\* rendered with the selected file
Reset ==
  /\ file # NoFile
  /\ file' = NoFile
  /\ verifyResult' = NoResult
  /\ error' = NoError
  /\ stage' = "idle"
  /\ UNCHANGED <<loading, pc, checkedProvenance, calls, apiKeys, runFile, urlFetches>>
  /\ UNCHANGED <<engineVars, varianceVars, sessionVars>>

\* the auto-verify effect calls verify, which runs up to "await
\* checkProvenance(file)"; the run's locals start undefined
AutoVerify ==
  /\ file # NoFile
  /\ verifyResult = NoResult
  /\ ~loading
  /\ loading' = TRUE
  /\ error' = NoError
  /\ stage' = "provenance"
  /\ pc' = "checkProvenance"
  /\ checkedProvenance' = NoProvenance
  /\ calls' = NoCalls
  /\ provenanceResult' = [isNull |-> TRUE]
  /\ detectorResults' = <<>>
  /\ ensembleResult' = NoEnsemble
  /\ verdict' = NoVerdict
  /\ op' = "init"
  /\ runFile' = file
  /\ UNCHANGED <<file, verifyResult, apiKeys, urlFetches, varianceVars, sessionVars>>

\* verify from the settling of checkProvenance (thrown: caught, the default
\* is used) up to its return on verified provenance or to "await
\* fileToBase64(file)"
CheckProvenanceSettles(thrown, outcome) ==
  /\ pc = "checkProvenance"
  /\ LET provenance == IF thrown THEN DefaultProvenance ELSE outcome
     IN /\ checkedProvenance' = provenance
        /\ IF SkipsDetection(provenance)
           THEN LET credentials == SpreadCredentials(provenance.c2pa)
                    finalResult == verifyContent(credentials, <<>>)
                IN /\ provenanceResult' = credentials
                   /\ detectorResults' = <<>>
                   /\ ensembleResult' = calculateEnsembleScore(<<>>)
                   /\ verdict' = finalResult
                   /\ op' = "verifyContent"
                   /\ verifyResult' = ResultObject(provenance, <<>>, finalResult)
                   /\ stage' = "complete"
                   /\ loading' = FALSE
                   /\ pc' = "none"
           ELSE /\ stage' = "detection"
                /\ pc' = "fileToBase64"
                /\ UNCHANGED <<engineVars, verifyResult, loading>>
  /\ UNCHANGED <<file, error, calls, apiKeys, runFile, urlFetches, varianceVars, sessionVars>>

\* verify from the settling of fileToBase64: a rejection ends the run with an
\* error; otherwise runAllDetectors calls the four adapters and awaits them
FileToBase64Settles(rejected, message) ==
  /\ pc = "fileToBase64"
  /\ IF rejected
     THEN /\ error' = message
          /\ stage' = "idle"
          /\ loading' = FALSE
          /\ pc' = "none"
          /\ UNCHANGED calls
     ELSE /\ calls' = CalledDetectors(checkedProvenance.imageData, apiKeys)
          /\ pc' = "runAllDetectors"
          /\ UNCHANGED <<error, stage, loading>>
  /\ UNCHANGED <<file, verifyResult, checkedProvenance, apiKeys, runFile, urlFetches>>
  /\ UNCHANGED <<engineVars, varianceVars, sessionVars>>

\* the fetch of adapter d comes to response and the adapter returns
FetchSettles(d, response) ==
  /\ pc = "runAllDetectors"
  /\ calls[d].state = "pending"
  /\ LET rank == 1 + Cardinality({o \in DOMAIN calls :
                                    calls[o].state = "settled" /\ calls[o].settledAt > 0})
     IN calls' = [calls EXCEPT ![d] = Settled(AdapterResult(d, apiKeys, response), rank)]
  /\ UNCHANGED <<file, stage, loading, error, verifyResult, pc, checkedProvenance, apiKeys>>
  /\ UNCHANGED <<runFile, urlFetches>>
  /\ UNCHANGED <<engineVars, varianceVars, sessionVars>>

\* Promise.all is fulfilled, runAllDetectors returns, and verify runs on to
\* its end: verifyContent, setResult, setStage('complete'), setLoading(false)
PromiseAllResolves ==
  /\ pc = "runAllDetectors"
  /\ AllSettled(calls)
  /\ LET results == runAllDetectors(calls)
         finalResult == verifyContent(checkedProvenance.c2pa, results)
     IN /\ provenanceResult' = checkedProvenance.c2pa
        /\ detectorResults' = results
        /\ ensembleResult' = calculateEnsembleScore(results)
        /\ verdict' = finalResult
        /\ op' = "verifyContent"
        /\ verifyResult' = ResultObject(checkedProvenance, results, finalResult)
  /\ stage' = "complete"
  /\ loading' = FALSE
  /\ pc' = "none"
  /\ UNCHANGED <<file, error, checkedProvenance, calls, apiKeys, runFile, urlFetches>>
  /\ UNCHANGED <<varianceVars, sessionVars>>

NextVerifier ==
  \/ \E f \in Files, kind \in DropKinds : HandleDrop(f, kind)
  \/ HandleUrlVerify
  \/ \E fetched \in BOOLEAN, imageFile \in Files, message \in UrlErrors :
       UrlFetchSettles(fetched, imageFile, message)
  \/ Reset
  \/ AutoVerify
  \/ \E thrown \in BOOLEAN, outcome \in ProvenanceOutcomes :
       CheckProvenanceSettles(thrown, outcome)
  \/ \E rejected \in BOOLEAN, message \in Base64Errors :
       FileToBase64Settles(rejected, message)
  \/ \E d \in {"hive", "sightengine"} : \E response \in Responses(d) :
       FetchSettles(d, response)
  \/ PromiseAllResolves

SpecVerifier == InitVerifier /\ [][NextVerifier]_vars

\* The event loop runs every continuation that is ready: the effect after a
\* render, and verify after each of its awaits once the awaited promise is
\* settled.  checkProvenance and fileToBase64 work on the local file and
\* settle (each of their callbacks has an onload and an onerror branch).  A
\* fetch is not bound to settle: the adapters set no timeout and pass no
\* abort signal, so nothing in the program ends a request that gets no answer.
\* At most one of these steps is enabled at a time (each is guarded by pc).
RunContinues ==
  \/ AutoVerify
  \/ \E thrown \in BOOLEAN, outcome \in ProvenanceOutcomes :
       CheckProvenanceSettles(thrown, outcome)
  \/ \E rejected \in BOOLEAN, message \in Base64Errors :
       FileToBase64Settles(rejected, message)
  \/ PromiseAllResolves

SpecVerifierFair == SpecVerifier /\ WF_vars(RunContinues)

\* ===================================================================== claims
\* the provenance input carries credentials that passed validation
ValidCredentials ==
  /\ ~provenanceResult.isNull
  /\ provenanceResult.hasCredentials = TRUE
  /\ provenanceResult.isValid = TRUE

DeterminedVerdict == op = "determineVerdict"

\* C1: whenever the provenance result has hasCredentials and isValid,
\* determineVerdict returns VERIFIED_AUTHENTIC with confidence exactly 1.0,
\* whatever the ensemble result is (no score, score 0 or 100, any variance,
\* any ensemble confidence).
C1_ProvenanceOverride ==
  (DeterminedVerdict /\ ValidCredentials) =>
     /\ verdict.verdict = "VERIFIED_AUTHENTIC"
     /\ verdict.confidence = 100

\* valid credentials met the most adverse detector output: score 100,
\* variance 50, ensemble confidence 0
C1_Witness ==
  /\ DeterminedVerdict /\ ValidCredentials
  /\ ensembleResult.score = 10000
  /\ ensembleResult.variance = 5000
  /\ ensembleResult.confidence = 0
  /\ verdict.verdict = "VERIFIED_AUTHENTIC"

\* the three conditional rules of the decision lattice that match the
\* ensemble result, named by the verdict each gives
MatchingRules ==
  {r \in {"INCONCLUSIVE", "LIKELY_AUTHENTIC", "LIKELY_SYNTHETIC"} :
     \/ r = "INCONCLUSIVE" /\ HighVariance(ensembleResult)
     \/ r = "LIKELY_AUTHENTIC" /\ LowScoreLowVariance(ensembleResult)
     \/ r = "LIKELY_SYNTHETIC" /\ HighScoreLowVariance(ensembleResult)}

\* C2: with no valid provenance and a score present, the rules are mutually
\* exclusive and exhaustive on the grid: at most one conditional rule matches
\* and it gives the verdict; when none matches the point lies in the region of
\* the otherwise rule (score in [30,70] or variance in [15,25]) and the verdict
\* is UNCERTAIN; every point with variance > 25 is decided by the
\* high-disagreement rule.
C2_RulesExclusive ==
  (DeterminedVerdict /\ ~ValidCredentials /\ ensembleResult.score # NULL) =>
     /\ Cardinality(MatchingRules) <= 1
     /\ MatchingRules # {} => MatchingRules = {verdict.verdict}
     /\ MatchingRules = {} =>
          /\ verdict.verdict = "UNCERTAIN"
          /\ \/ ensembleResult.score >= 3000 /\ ensembleResult.score <= 7000
             \/ ensembleResult.variance >= 1500 /\ ensembleResult.variance <= 2500
     /\ ensembleResult.variance > 2500 =>
          /\ verdict.verdict = "INCONCLUSIVE"
          /\ verdict.auditTrail.method = "ensemble-variance-check"

\* a low score with variance just above 25 was decided by the
\* high-disagreement rule
C2_Witness ==
  /\ DeterminedVerdict /\ ~ValidCredentials
  /\ ensembleResult.score = 1500
  /\ ensembleResult.variance = 2501
  /\ verdict.verdict = "INCONCLUSIVE"

\* C3: with no valid provenance and a score present, variance > 25 gives
\* INCONCLUSIVE; else score < 30 and variance < 15 gives LIKELY_AUTHENTIC; else
\* score > 70 and variance < 15 gives LIKELY_SYNTHETIC; everything else gives
\* UNCERTAIN.  The boundaries variance = 15 and variance = 25 (any score) and
\* score = 30 and score = 70 (variance not above 25) give UNCERTAIN.
C3_VerdictMapping ==
  (DeterminedVerdict /\ ~ValidCredentials /\ ensembleResult.score # NULL) =>
     LET score == ensembleResult.score
         variance == ensembleResult.variance
     IN /\ verdict.verdict =
             IF variance > 2500 THEN "INCONCLUSIVE"
             ELSE IF score < 3000 /\ variance < 1500 THEN "LIKELY_AUTHENTIC"
             ELSE IF score > 7000 /\ variance < 1500 THEN "LIKELY_SYNTHETIC"
             ELSE "UNCERTAIN"
        /\ variance \in {1500, 2500} => verdict.verdict = "UNCERTAIN"
        /\ (score \in {3000, 7000} /\ variance <= 2500) => verdict.verdict = "UNCERTAIN"
        /\ verdict.confidence = ensembleResult.confidence

\* the boundary score 70 with full agreement was found UNCERTAIN
C3_Witness ==
  /\ DeterminedVerdict /\ ~ValidCredentials
  /\ ensembleResult.score = 7000
  /\ ensembleResult.variance = 0
  /\ verdict.verdict = "UNCERTAIN"

\* ------------------------------------------------ claims on the aggregator
\* ensembleResult is the result of calculateEnsembleScore(detectorResults)
Scored == op \in {"calculateEnsembleScore", "verifyContent"}

\* the positions of the results that carry a score
Present ==
  {i \in DOMAIN detectorResults :
     detectorResults[i].score # NULL /\ detectorResults[i].score # UNDEFINED}

RECURSIVE SumOver(_, _)
SumOver(S, f) ==
  IF S = {} THEN 0
  ELSE LET i == CHOOSE j \in S : TRUE IN f[i] + SumOver(S \ {i}, f)

MinPresent == CHOOSE m \in {detectorResults[i].score : i \in Present} :
                \A i \in Present : m <= detectorResults[i].score
MaxPresent == CHOOSE m \in {detectorResults[i].score : i \in Present} :
                \A i \in Present : m >= detectorResults[i].score

\* the dominant-signal boost was applied to the current result
Boosted == Scored /\ Present # {} /\ ensembleResult.visionCouncilDominant

\* C4: calculateEnsembleScore returns score = null exactly when no result of
\* the list has a present score (empty list, or every score null/undefined);
\* then variance = null, confidence = 0 and the available count is 0, and
\* otherwise score and variance are numbers and the count is positive.
C4_NoScoreIffNoneAvailable ==
  Scored =>
     /\ (ensembleResult.score = NULL) <=> (Present = {})
     /\ Present = {} =>
          /\ ensembleResult.variance = NULL
          /\ ensembleResult.confidence = 0
          /\ ensembleResult.availableDetectors = 0
     /\ Present # {} =>
          /\ ensembleResult.score \in 0..(100 * Cent)
          /\ ensembleResult.variance >= 0
          /\ ensembleResult.availableDetectors = Cardinality(Present)

\* a list of two results, one null and one undefined, gave the no-score result
C4_Witness ==
  /\ Scored
  /\ Len(detectorResults) = 2
  /\ \E i, j \in DOMAIN detectorResults :
       detectorResults[i].score = NULL /\ detectorResults[j].score = UNDEFINED
  /\ ensembleResult.score = NULL
  /\ ensembleResult.availableDetectors = 0

\* C5: when no detector produced a score and provenance is absent or not
\* valid, verifyContent returns INCONCLUSIVE with confidence 0 and the
\* 'MANUAL REVIEW - Automated analysis unavailable.' recommendation.
C5_TotalUnavailability ==
  (op = "verifyContent" /\ Present = {} /\ ~ValidCredentials) =>
     /\ verdict.verdict = "INCONCLUSIVE"
     /\ verdict.confidence = 0
     /\ verdict.recommendation = "MANUAL REVIEW - Automated analysis unavailable."
     /\ verdict.summary.verdict = "INCONCLUSIVE"
     /\ verdict.summary.score = NULL

\* credentials that failed validation and two detectors without a score
C5_Witness ==
  /\ op = "verifyContent"
  /\ ~provenanceResult.isNull /\ provenanceResult.hasCredentials
  /\ ~provenanceResult.isValid
  /\ Len(detectorResults) = 2 /\ Present = {}
  /\ verdict.verdict = "INCONCLUSIVE"

\* C6 as stated: the returned ensemble score lies between the minimum and the
\* maximum of the available raw scores (inclusive).
C6_Original ==
  (Scored /\ Present # {}) =>
     /\ MinPresent * Cent <= ensembleResult.score * Unit
     /\ ensembleResult.score * Unit <= MaxPresent * Cent

\* C6 amended: the unrounded weighted average weightedSum / totalWeight lies
\* between the minimum and the maximum of the available raw scores, and the
\* returned score, which is that average rounded to two decimals, lies between
\* the minimum and the maximum rounded to two decimals.
C6_WithinRoundedExtremes ==
  (Scored /\ Present # {}) =>
     LET c == ensembleResult.audit.calculation
         half == Unit \div Cent
     IN /\ MinPresent * c.totalWeight <= c.weightedSum
        /\ c.weightedSum <= MaxPresent * c.totalWeight
        /\ (MinPresent + 1) \div half <= ensembleResult.score
        /\ ensembleResult.score <= (MaxPresent + 1) \div half

\* the boost applied to detectors that disagree, and the score strictly inside
C6_Witness ==
  /\ Boosted
  /\ Cardinality(Present) >= 2
  /\ MinPresent * Cent < ensembleResult.score * Unit
  /\ ensembleResult.score * Unit < MaxPresent * Cent

\* the list without its i-th result, and with u put in after position k
RemoveAt(l, i) == SubSeq(l, 1, i - 1) \o SubSeq(l, i + 1, Len(l))
InsertAfter(l, k, u) == SubSeq(l, 1, k) \o <<u>> \o SubSeq(l, k + 1, Len(l))

\* results without a score that a caller may add to the list
UnavailableInputs == {r \in DetectorInputs : r.score \in {NULL, UNDEFINED}}

\* two ensemble results agree on score, variance and confidence
SameEnsemble(a, b) ==
  /\ a.score = b.score
  /\ a.variance = b.variance
  /\ a.confidence = b.confidence
  /\ a.availableDetectors = b.availableDetectors

\* C7: the ensemble score weightedSum / totalWeight is the sum of score times
\* effective weight over the sum of effective weights, both taken over the
\* results with a present score only: removing any unavailable result from the
\* list, or adding one anywhere, leaves score, variance and confidence
\* unchanged, and the average is never below the smallest available score.
C7_AvailableOnly ==
  Scored =>
     /\ Present # {} =>
          LET c == ensembleResult.audit.calculation
              w == [i \in Present |->
                      EffectiveWeight(detectorResults[i], c.visionCouncilBoosted)]
              sw == [i \in Present |-> detectorResults[i].score * w[i]]
          IN /\ c.weightedSum = SumOver(Present, sw)
             /\ c.totalWeight = SumOver(Present, w)
             /\ c.totalWeight > 0
             /\ c.weightedSum >= MinPresent * c.totalWeight
             /\ ensembleResult.score =
                  (c.weightedSum + c.totalWeight) \div (2 * c.totalWeight)
     /\ \A i \in DOMAIN detectorResults \ Present :
          SameEnsemble(calculateEnsembleScore(RemoveAt(detectorResults, i)),
                       ensembleResult)
     /\ \A u \in UnavailableInputs : \A k \in 0..Len(detectorResults) :
          SameEnsemble(calculateEnsembleScore(InsertAfter(detectorResults, k, u)),
                       ensembleResult)

\* two available results with an unavailable one between them
C7_Witness ==
  /\ Scored
  /\ Len(detectorResults) = 3
  /\ Present = {1, 3}
  /\ ensembleResult.availableDetectors = 2
  /\ ensembleResult.score * Unit > MinPresent * Cent

\* C8: the boost triggers if and only if a vision_council result is in the
\* available set with confidence >= 0.80 and score >= 75 or score <= 25; a
\* vision_council score of 50 with confidence 0.95 does not trigger it, nor an
\* extreme score with confidence below 0.80, nor any other source.
C8_BoostTrigger ==
  (Scored /\ Present # {}) =>
     LET qualifies ==
           \E i \in Present :
              /\ detectorResults[i].source = "vision_council"
              /\ detectorResults[i].confidence >= 80
              /\ (detectorResults[i].score >= 15000 \/ detectorResults[i].score <= 5000)
     IN /\ ensembleResult.visionCouncilDominant <=> qualifies
        /\ ensembleResult.audit.calculation.visionCouncilBoosted <=> qualifies

\* vision_council at 50 with confidence 0.95, next to a very confident extreme
\* result of another source: no boost
C8_Witness ==
  /\ Scored
  /\ \E i, j \in Present :
       /\ detectorResults[i] = Result("vision_council", 10000, 95)
       /\ detectorResults[j] = Result("sightengine", 20000, 99)
  /\ ~ensembleResult.visionCouncilDominant

\* the weight the claim gives a source, in thousandths
C9_ClaimedWeight(source, boosted) ==
  IF boosted
  THEN CASE source = "vision_council" -> 700
         [] source = "hive" -> 100
         [] source = "sightengine" -> 75
         [] source = "heuristics" -> 50
         [] source = "illuminarty" -> 25
         [] OTHER -> 50
  ELSE CASE source = "vision_council" -> 500
         [] source = "hive" -> 200
         [] source = "sightengine" -> 150
         [] source = "heuristics" -> 100
         [] source = "illuminarty" -> 50
         [] OTHER -> 100

\* C9: when the boost triggers the primary source weighs 0.70 and every other
\* available source half its default weight (half of the 0.10 fallback for an
\* unknown source); otherwise every source weighs its default.  Primary 92
\* with confidence 0.85 and hive at 40 give the weights 0.70 and 0.10.
C9_EffectiveWeights ==
  (Scored /\ Present # {}) =>
     LET c == ensembleResult.audit.calculation
         boosted == ensembleResult.visionCouncilDominant
         w == [i \in Present |-> C9_ClaimedWeight(detectorResults[i].source, boosted)]
         sw == [i \in Present |-> detectorResults[i].score * w[i]]
     IN /\ \A i \in Present : EffectiveWeight(detectorResults[i], boosted) = w[i]
        /\ c.totalWeight = SumOver(Present, w)
        /\ c.weightedSum = SumOver(Present, sw)
        /\ detectorResults = <<Result("vision_council", 18400, 85),
                               Result("hive", 8000, 85)>> =>
             /\ boosted
             /\ c.totalWeight = 700 + 100
             /\ c.weightedSum = 18400 * 700 + 8000 * 100
             /\ ensembleResult.score = 8550

\* primary 92 at confidence 0.85 with hive at 40: score 85.5, not the 66
\* naive blend
C9_Witness ==
  /\ Scored
  /\ detectorResults = <<Result("vision_council", 18400, 85), Result("hive", 8000, 85)>>
  /\ ensembleResult.visionCouncilDominant
  /\ ensembleResult.score = 8550

\* C10 as stated: whenever the boost triggers, the primary is not the only
\* contributor and its share of the renormalized weight is 70%, the others
\* contributing the remaining 30%.
C10_Original ==
  Boosted =>
     LET c == ensembleResult.audit.calculation
     IN /\ ensembleResult.availableDetectors > 1
        /\ 700 * 100 = 70 * c.totalWeight
        /\ (c.totalWeight - 700) * 100 = 30 * c.totalWeight

\* the five sources DETECTOR_WEIGHTS lists, without the primary
ConfiguredOthers == DOMAIN DETECTOR_WEIGHTS \ {"vision_council"}

\* C10 amended: whenever the boost triggers, the primary's share of the
\* renormalized weight is 0.70 / (0.70 + half the summed default weights of
\* the other available detectors): it is 100% exactly when the primary is the
\* only available detector, and for every subset of the five configured
\* detectors it is at least 70/95 and never as low as 70%.
C10_PrimaryShare ==
  /\ Boosted =>
       LET c == ensembleResult.audit.calculation
           others == {i \in Present : detectorResults[i].source # "vision_council"}
           half == [i \in others |-> DefaultWeight(detectorResults[i].source) \div 2]
       IN /\ c.totalWeight = 700 + SumOver(others, half)
          /\ (c.totalWeight = 700) <=> (ensembleResult.availableDetectors = 1)
          /\ ensembleResult.availableDetectors > 1 => c.totalWeight > 700
  /\ \A S \in SUBSET ConfiguredOthers :
       LET w == [src \in S |-> EffectiveWeight([source |-> src], TRUE)]
           total == EffectiveWeight([source |-> "vision_council"], TRUE) + SumOver(S, w)
       IN /\ 700 * 95 >= 70 * total
          /\ 700 * 100 > 70 * total

\* the boost triggered with the primary as the only available detector
C10_Witness ==
  /\ Boosted
  /\ ensembleResult.availableDetectors = 1
  /\ Len(detectorResults) > 1
  /\ ensembleResult.audit.calculation.totalWeight = 700

\* calculateVariance has returned
VarianceReturned == "radicand" \in DOMAIN returnedVariance

AllEqual(s) == \A i, j \in DOMAIN s : s[i] = s[j]

\* the given scores in whole points (ScoreValues holds whole points only)
Points(s) == [i \in DOMAIN s |-> s[i] \div Unit]

\* C11: calculateVariance returns a value >= 0 for every score list; the value
\* is 0 exactly when all scores are equal, in particular for every list of
\* length 0 or 1.  The value is the population standard deviation: its square
\* times N * N is the sum over the scores of (N * score - sum)^2, e.g. 0.82
\* (rounded) for [10, 12, 11] and 40 for [90, 10].
C11_VarianceZeroIffEqual ==
  VarianceReturned =>
    LET n == Len(givenScores)
        p == Points(givenScores)
        deviations == [i \in DOMAIN p |-> (n * p[i] - SumSeq(p)) * (n * p[i] - SumSeq(p))]
    IN /\ returnedVariance.radicand >= 0
       /\ returnedVariance.divisor > 0
       /\ RoundedVariance(returnedVariance) >= 0
       /\ (returnedVariance.radicand = 0) <=> AllEqual(givenScores)
       /\ n <= 1 => returnedVariance.radicand = 0
       /\ n >= 1 =>
            (returnedVariance.radicand \div (Unit * Unit)) * n
              * (returnedVariance.divisor * returnedVariance.divisor)
            = SumSeq(deviations) * IF n = 1 THEN 1 ELSE n * n
       /\ givenScores = <<2000, 2400, 2200>> => RoundedVariance(returnedVariance) = 82
       /\ givenScores = <<18000, 2000>> => RoundedVariance(returnedVariance) = 40 * Cent

\* three equal scores: variance 0 from a list longer than one
C11_Witness ==
  /\ VarianceReturned
  /\ Len(givenScores) = 3
  /\ AllEqual(givenScores)
  /\ returnedVariance.radicand = 0

\* the distance between the two present scores, when exactly two are present
TwoPresent == Cardinality(Present) = 2
Disagreement == MaxPresent - MinPresent

\* C12 as stated: variance is the population standard deviation, |a - b| / 2
\* for two available detectors, so whenever two detectors disagree by more
\* than 50 points and provenance is not valid the verdict is INCONCLUSIVE.
C12_Original ==
  (op = "verifyContent" /\ TwoPresent /\ ~ValidCredentials) =>
     (Disagreement > 50 * Unit => verdict.verdict = "INCONCLUSIVE")

\* C12 amended: for exactly two available detectors the returned variance is
\* |a - b| / 2 rounded to two decimals; with provenance not valid the verdict
\* is the variance-check INCONCLUSIVE exactly when that rounded value exceeds
\* 25, whatever the weights, the boost and the average: always when the two
\* disagree by more than 50.01 points (e.g. [90, 10], variance 40), and not
\* at a disagreement of 50.005 points, whose variance 25.0025 is returned as
\* 25.00.
C12_TwoDetectorDisagreement ==
  /\ (Scored /\ TwoPresent) =>
        ensembleResult.variance = MathRound(Disagreement * Cent, 2 * Unit)
  /\ (op = "verifyContent" /\ TwoPresent /\ ~ValidCredentials) =>
        /\ (verdict.verdict = "INCONCLUSIVE")
             <=> (MathRound(Disagreement * Cent, 2 * Unit) > 25 * Cent)
        /\ Disagreement > 50 * Unit + (Unit \div Cent) => verdict.verdict = "INCONCLUSIVE"
        /\ verdict.verdict = "INCONCLUSIVE" =>
             verdict.auditTrail.method = "ensemble-variance-check"
  /\ \A p \in ProvenanceInputs \ {[isNull |-> FALSE, hasCredentials |-> TRUE, isValid |-> TRUE]} :
        LET v == verifyContent(p, <<Result("hive", 90 * Unit, 85),
                                   Result("sightengine", 10 * Unit, 90)>>)
        IN v.verdict = "INCONCLUSIVE" /\ v.summary.variance = 40 * Cent

\* two detectors 92 points apart, the primary one boosted: INCONCLUSIVE
C12_Witness ==
  /\ op = "verifyContent"
  /\ TwoPresent
  /\ ~ValidCredentials
  /\ Boosted
  /\ Disagreement > 90 * Unit
  /\ verdict.verdict = "INCONCLUSIVE"

\* the present scores, in list order
PresentScores ==
  LET HasScore(r) == r.score \notin {NULL, UNDEFINED}
      present == SelectSeq(detectorResults, HasScore)
  IN [i \in DOMAIN present |-> present[i].score]

\* disagreements of a reference pair of detectors, from none to 100 points
ReferenceDisagreements == {0, 10 * Unit, 25 * Unit, 50 * Unit, 75 * Unit, 100 * Unit}

ReferenceEnsemble(x) ==
  calculateEnsembleScore(<<Result("hive", 0, 85), Result("sightengine", x, 90)>>)

\* C13: the ensemble confidence is max(0, 1 - variance / 50) of the standard
\* deviation of the present scores (returned rounded to two decimals): it is
\* within [0, 1], it is 1 at variance 0 and 0 from variance 50 on, it does not
\* increase when the variance increases, and it is fixed by the variance
\* alone, whatever the score.
C13_ConfidenceFromVariance ==
  /\ (Scored /\ Present # {}) =>
        LET sd == calculateVariance(PresentScores)
            twice == CeilTwiceSqrt(sd.radicand)
            g == (Unit \div 2) * sd.divisor
            c == ensembleResult.confidence
        IN /\ c \in 0..Cent
           /\ sd.radicand = 0 => c = Cent
           /\ twice > (2 * (Cent - c) - 1) * g
           /\ c > 0 => twice <= (2 * (Cent - c) + 1) * g
           /\ \A x \in ReferenceDisagreements :
                LET ref == ReferenceEnsemble(x)
                IN /\ ref.variance < ensembleResult.variance => ref.confidence >= c
                   /\ ref.variance > ensembleResult.variance => ref.confidence <= c
  /\ ReferenceEnsemble(0).confidence = Cent
  /\ ReferenceEnsemble(50 * Unit).confidence = Cent \div 2
  /\ ReferenceEnsemble(100 * Unit).variance = 50 * Cent
  /\ ReferenceEnsemble(100 * Unit).confidence = 0

\* three detectors with a standard deviation near 39 points: confidence 0.22
C13_Witness ==
  /\ Scored
  /\ Cardinality(Present) = 3
  /\ ensembleResult.variance > 35 * Cent
  /\ ensembleResult.confidence \in 1..(Cent \div 2)

\* the position of a source in SourceOrder
SourceIndex(source) == CHOOSE k \in DOMAIN SourceOrder : SourceOrder[k] = source

\* the same scores under other identities: every result takes the source k
\* places further in SourceOrder and reports the confidence c
Relabelled(l, k, c) ==
  [i \in DOMAIN l |->
     Result(SourceOrder[((SourceIndex(l[i].source) + k - 1) % Len(SourceOrder)) + 1],
            l[i].score, c)]

\* the same scores from sources the weight table does not list
Anonymous(l) == [i \in DOMAIN l |-> Result("unlisted", l[i].score, l[i].confidence)]

\* lists with the same multiset of scores as the current one
SameScores ==
  {Reverse(detectorResults), Anonymous(detectorResults)} \cup
  {Relabelled(detectorResults, k, c) : <<k, c>> \in {1, 3} \X {0, Cent}}

\* C14: variance and ensemble confidence depend only on the multiset of the
\* raw available scores: they are the same whatever the order and the
\* identities of the sources, their weights and self-reported confidences,
\* and whether the boost applies; reweighting changes the score only.
C14_DisagreementIgnoresWeights ==
  Scored =>
    \A alt \in SameScores :
       LET e == calculateEnsembleScore(alt)
       IN /\ e.variance = ensembleResult.variance
          /\ e.confidence = ensembleResult.confidence
          /\ e.availableDetectors = ensembleResult.availableDetectors

\* a boosted list and a relabelling of it that is not boosted: another score,
\* the same variance and confidence
C14_Witness ==
  /\ Boosted
  /\ Cardinality(Present) >= 2
  /\ \E alt \in SameScores :
       LET e == calculateEnsembleScore(alt)
       IN /\ ~e.visionCouncilDominant
          /\ e.score # ensembleResult.score
          /\ e.variance = ensembleResult.variance
          /\ e.variance > 0

\* the five verdicts
VerdictValues ==
  {"VERIFIED_AUTHENTIC", "LIKELY_AUTHENTIC", "UNCERTAIN", "LIKELY_SYNTHETIC",
   "INCONCLUSIVE"}

\* C18: verifyContent returns for every provenance input (null, no
\* credentials, invalid, valid) and every list of results that are available
\* (score within [0,100]) or unavailable: the verdict is one of the five
\* values and the confidence is within [0,1], in the verdict and its summary.
C18_AlwaysAVerdict ==
  op = "verifyContent" =>
    /\ verdict.verdict \in VerdictValues
    /\ verdict.verdict \in {VERDICTS[k] : k \in DOMAIN VERDICTS}
    /\ verdict.confidence \in 0..Cent
    /\ verdict.summary.verdict = verdict.verdict
    /\ verdict.summary.confidence \in 0..Cent
    /\ verdict.recommendation # ""

\* valid credentials next to a list of four results, some of them unavailable
C18_Witness ==
  /\ op = "verifyContent"
  /\ ValidCredentials
  /\ Len(detectorResults) = 4
  /\ Cardinality(Present) = 2
  /\ verdict.verdict = "VERIFIED_AUTHENTIC"
  /\ verdict.confidence = Cent

\* C20 as stated: the audit holds one record per available detector, in input
\* order, and the weight of each record is the effective weight used, so that
\* the sum of score * weight over the sum of weight, taken from the audit
\* alone and rounded as the score is, reproduces the ensemble score.
C20_AuditReproducesScore ==
  (Scored /\ Present # {}) =>
     LET records == ensembleResult.audit.detectors
         n == Len(records)
         sum == SumOver(1..n, [i \in 1..n |-> records[i].score * records[i].weight])
         weight == SumOver(1..n, [i \in 1..n |-> records[i].weight])
     IN /\ n = Cardinality(Present)
        /\ [i \in 1..n |-> records[i].score] = PresentScores
        /\ weight > 0
        /\ MathRound(sum, weight * (Unit \div Cent)) = ensembleResult.score

\* a result is on display
ResultShown == ~verifyResult.isNull

\* the run in flight got verified provenance from checkProvenance
VerifiedRun == ~checkedProvenance.isNull /\ checkedProvenance.hasVerifiedProvenance

\* C15: in every verify run in which the provenance check reports verified
\* provenance, no detector adapter is invoked and the 'detection' stage is
\* not entered: the step that receives the provenance result ends the run in
\* stage 'complete' with verdict VERIFIED_AUTHENTIC, confidence 1.0 and an
\* empty detector list.
C15_VerifiedSkipsDetection ==
  /\ [](VerifiedRun =>
          /\ pc = "none"
          /\ calls = NoCalls
          /\ stage # "detection"
          /\ ResultShown =>
               /\ verifyResult.provenance = checkedProvenance
               /\ verifyResult.detectors = <<>>
               /\ verifyResult.verdict.verdict = "VERIFIED_AUTHENTIC"
               /\ verifyResult.verdict.confidence = Cent)
  /\ [][(pc = "checkProvenance" /\ pc' # pc /\ VerifiedRun') =>
          /\ stage # "detection"
          /\ stage' = "complete"
          /\ ~loading'
          /\ ResultShown'
          /\ verdict'.verdict = "VERIFIED_AUTHENTIC"
          /\ verdict'.confidence = Cent
          /\ detectorResults' = <<>>
          /\ error' = error]_vars

\* every credential is configured, the provenance was verified, and the run
\* is complete with VERIFIED_AUTHENTIC and no detector called
C15_Witness ==
  /\ apiKeys = ApiKeyNames
  /\ VerifiedRun
  /\ stage = "complete"
  /\ ResultShown
  /\ verifyResult.verdict.verdict = "VERIFIED_AUTHENTIC"
  /\ verifyResult.detectors = <<>>
  /\ calls = NoCalls

\* the sources of a result list, in list order
Sources(l) == [i \in DOMAIN l |-> l[i].source]

\* C16: the detector fan-out is a join: verifyContent is invoked only once
\* every configured detector call has settled, never while one is pending,
\* and the list it gets has one entry per configured detector, each the
\* result of that detector's call, in the configuration order whichever
\* detector finished first.
C16_FanOutIsAJoin ==
  /\ [](pc = "runAllDetectors" => op = "init")
  /\ []((op = "verifyContent" /\ detectorResults # <<>>) =>
          /\ Sources(detectorResults) = ConfiguredDetectors
          /\ \A i \in DOMAIN detectorResults :
               /\ calls[ConfiguredDetectors[i]].state = "settled"
               /\ detectorResults[i] = calls[ConfiguredDetectors[i]].value)
  /\ [][(pc = "runAllDetectors" /\ op' = "verifyContent") =>
          /\ \A d \in DOMAIN calls : calls[d].state = "settled"
          /\ calls' = calls
          /\ Len(detectorResults') = Len(ConfiguredDetectors)
          /\ verifyResult'.detectors = detectorResults']_vars

\* sightengine answered before hive; the list still starts with hive
C16_Witness ==
  /\ op = "verifyContent"
  /\ calls["sightengine"].state = "settled"
  /\ calls["hive"].state = "settled"
  /\ calls["sightengine"].settledAt = 1
  /\ calls["hive"].settledAt = 2
  /\ Sources(detectorResults) = ConfiguredDetectors
  /\ ResultShown

\* the fetch came to nothing the adapter can use
Failed(response) == response.kind = "exception" \/ ~response.ok

\* an unavailable DetectorResult with its error populated
ReportsUnavailable(r) ==
  /\ r.score = NULL
  /\ "error" \in DOMAIN r
  /\ r.error # ""

\* What holds of a failing adapter: with credentials missing, a non-OK status
\* or a rejected fetch it returns an unavailable DetectorResult, score null
\* with a non-empty error; the settling of a call leaves the run in the
\* fan-out and sets no error, the other calls' results are kept, and the step
\* that ends the fan-out puts every result on the list and yields a verdict.
AdapterFailureIsLocal ==
  /\ \A d \in {"hive", "sightengine"} : \A keys \in SUBSET ApiKeyNames :
       \A response \in Responses(d) :
          LET r == AdapterResult(d, keys, response)
              configured == IF d = "hive" THEN "hive" \in keys
                            ELSE {"sightengineUser", "sightengineSecret"} \subseteq keys
          IN /\ r.source = d
             /\ (~configured \/ Failed(response)) <=> ReportsUnavailable(r)
             /\ (configured /\ ~Failed(response)) => r.score # NULL
  /\ [](\A d \in DOMAIN calls :
          (calls[d].state = "settled" /\ calls[d].value.score = NULL)
             => ReportsUnavailable(calls[d].value))
  /\ []((ResultShown /\ verifyResult.detectors # <<>>) =>
          /\ verifyResult.detectors = runAllDetectors(calls)
          /\ verifyResult.verdict.verdict \in VerdictValues)
  /\ [][(pc = "runAllDetectors" /\ (calls' # calls \/ pc' # pc)) =>
          /\ error' = error
          /\ \A d \in DOMAIN calls : calls[d].state = "settled" => calls'[d] = calls[d]
          /\ pc' # pc =>
               /\ stage' = "complete"
               /\ ResultShown'
               /\ verifyResult'.detectors = [i \in DOMAIN ConfiguredDetectors |->
                                               calls[ConfiguredDetectors[i]].value]
               /\ verifyResult'.verdict.verdict \in VerdictValues]_vars

\* hive answered 500 and sightengine answered: both are in the result, and
\* the verdict rests on sightengine and the heuristics
AdapterFailureIsLocal_Reached ==
  /\ ResultShown
  /\ stage = "complete"
  /\ Len(verifyResult.detectors) = 4
  /\ verifyResult.detectors[1] = Unavailable("hive", "Hive API error: 500")
  /\ verifyResult.detectors[2].score = 90 * Unit
  /\ verifyResult.verdict.summary.detectorsUsed = 2
  /\ verifyResult.verdict.verdict \in VerdictValues

\* C17 as stated: an adapter that fails or times out on its own (missing
\* credentials, non-OK status, network exception, no response) reports an
\* unavailable DetectorResult instead of aborting the pipeline, so that a run
\* that has fanned out to the detectors still ends with a verdict.
C17_FanOutEndsWithVerdict ==
  (pc = "runAllDetectors") ~> (pc = "none" /\ op = "verifyContent" /\ ~loading)

\* C19 as stated: a detector result whose score is outside [0,100] never
\* enters the weighted sum or the variance (it is rejected or clamped before
\* aggregation), so the ensemble score stays within [0,100].
C19_MalformedNeverAggregated ==
  (op = "verifyContent" /\ ensembleResult.score # NULL) =>
     /\ \A i \in DOMAIN ensembleResult.audit.detectors :
          ensembleResult.audit.detectors[i].score \in 0..(100 * Unit)
     /\ ensembleResult.score \in 0..(100 * Cent)

\* the keys of the summary object
SummaryKeys == {"verdict", "score", "variance", "confidence", "hasProvenance", "detectorsUsed"}

\* C21: the object verifyContent returns always contains summary, also when
\* fields are null: summary.verdict is the verdict tag, summary.score and
\* summary.variance are the ensemble's (null when no detector was available),
\* summary.confidence is the verdict's confidence, summary.detectorsUsed is
\* the number of results with a present score, and summary.hasProvenance is
\* true exactly when the provenance input has hasCredentials.
C21_SummaryAlwaysPresent ==
  op = "verifyContent" =>
    /\ "summary" \in DOMAIN verdict
    /\ DOMAIN verdict.summary = SummaryKeys
    /\ verdict.summary.verdict = verdict.verdict
    /\ verdict.summary.score = ensembleResult.score
    /\ verdict.summary.variance = ensembleResult.variance
    /\ Present = {} => (verdict.summary.score = NULL /\ verdict.summary.variance = NULL)
    /\ Present # {} => (verdict.summary.score # NULL /\ verdict.summary.variance # NULL)
    /\ verdict.summary.confidence = verdict.confidence
    /\ verdict.summary.detectorsUsed = Cardinality(Present)
    /\ verdict.summary.hasProvenance
         <=> (~provenanceResult.isNull /\ provenanceResult.hasCredentials)

\* credentials that failed validation and no detector available: the summary
\* is there with score and variance null and hasProvenance true
C21_Witness ==
  /\ op = "verifyContent"
  /\ ~provenanceResult.isNull /\ provenanceResult.hasCredentials
  /\ ~provenanceResult.isValid
  /\ detectorResults # <<>> /\ Present = {}
  /\ verdict.summary.score = NULL
  /\ verdict.summary.variance = NULL
  /\ verdict.summary.detectorsUsed = 0
  /\ verdict.summary.hasProvenance

Abs(x) == IF x < 0 THEN 0 - x ELSE x

\* the score of the primary detector: the first vision_council result that
\* carries a score
PrimaryScore ==
  detectorResults[Min({i \in Present : detectorResults[i].source = "vision_council"})].score

\* every weight is a multiple of the smallest halved one
WeightStep == DETECTOR_WEIGHTS.illuminarty \div 2

\* C24: for every list of available results on which the boost triggers, the
\* boosted ensemble score weightedSum / totalWeight is at least as close to
\* the primary detector's score as the ensemble score computed from the
\* default weights on the same list, strictly closer whenever the
\* default-weight ensemble differs from the primary's score, and on the same
\* side of it: the boost never moves the score away from the primary.  The
\* returned scores, rounded to two decimals, are at least as close.
C24_BoostMovesTowardPrimary ==
  Boosted =>
    LET available == Available(detectorResults)
        c == ensembleResult.audit.calculation
        defaultSum == WeightedSum(available, FALSE)
        defaultWeight == TotalWeight(available, FALSE)
        \* (ensemble - primary) * total weight, for the boosted and the default weights
        boostedGap == c.weightedSum - PrimaryScore * c.totalWeight
        defaultGap == defaultSum - PrimaryScore * defaultWeight
        half == Unit \div Cent
    IN /\ c.totalWeight % WeightStep = 0 /\ defaultWeight % WeightStep = 0
       /\ Abs(boostedGap) * (defaultWeight \div WeightStep)
            <= Abs(defaultGap) * (c.totalWeight \div WeightStep)
       /\ defaultGap # 0 =>
            Abs(boostedGap) * (defaultWeight \div WeightStep)
              < Abs(defaultGap) * (c.totalWeight \div WeightStep)
       /\ boostedGap > 0 => defaultGap > 0
       /\ boostedGap < 0 => defaultGap < 0
       /\ Abs(ensembleResult.score * half - PrimaryScore)
            <= Abs(RoundedScore(defaultSum, defaultWeight) * half - PrimaryScore)

\* primary 92 with three other detectors between 0 and 60: the default
\* weights give a score more than ten points further from 92 than the
\* boosted ones
C24_Witness ==
  /\ Boosted
  /\ PrimaryScore = 92 * Unit
  /\ Cardinality(Present) = 4
  /\ LET available == Available(detectorResults)
         byDefault == RoundedScore(WeightedSum(available, FALSE), TotalWeight(available, FALSE))
     IN /\ byDefault + 10 * Cent < ensembleResult.score
        /\ ensembleResult.score < 92 * Cent

\* exactly one result carries a score
OnePresent == Cardinality(Present) = 1

\* the score of the only available result
OnlyScore == detectorResults[CHOOSE i \in Present : TRUE].score

\* C29 as stated: when exactly one detector result is available, the ensemble
\* score equals that detector's raw score, variance is 0 and confidence is 1,
\* and the verdict follows from that raw score alone: LIKELY_AUTHENTIC below
\* 30, LIKELY_SYNTHETIC above 70, else UNCERTAIN, never INCONCLUSIVE.
C29_Original ==
  (Scored /\ OnePresent) =>
     /\ ensembleResult.score * Unit = OnlyScore * Cent
     /\ ensembleResult.variance = 0
     /\ ensembleResult.confidence = Cent
     /\ (op = "verifyContent" /\ ~ValidCredentials) =>
          verdict.verdict =
            IF OnlyScore < 30 * Unit THEN "LIKELY_AUTHENTIC"
            ELSE IF OnlyScore > 70 * Unit THEN "LIKELY_SYNTHETIC"
            ELSE "UNCERTAIN"

\* C29 amended: when exactly one detector result is available, whatever its
\* source, weight or self-reported confidence, the unrounded weighted average
\* equals that detector's raw score, the returned score is that score rounded
\* to two decimals, variance is 0 and confidence is 1; with provenance not
\* valid the verdict follows from the rounded score alone (LIKELY_AUTHENTIC
\* below 30, LIKELY_SYNTHETIC above 70, else UNCERTAIN, so a raw 29.995 is
\* UNCERTAIN) and is never INCONCLUSIVE.
C29_SingleDetector ==
  (Scored /\ OnePresent) =>
     LET c == ensembleResult.audit.calculation
         rounded == MathRound(OnlyScore, Unit \div Cent)
     IN /\ c.weightedSum = OnlyScore * c.totalWeight
        /\ ensembleResult.score = rounded
        /\ ensembleResult.variance = 0
        /\ ensembleResult.confidence = Cent
        /\ (op = "verifyContent" /\ ~ValidCredentials) =>
             /\ verdict.verdict =
                  IF rounded < 30 * Cent THEN "LIKELY_AUTHENTIC"
                  ELSE IF rounded > 70 * Cent THEN "LIKELY_SYNTHETIC"
                  ELSE "UNCERTAIN"
             /\ verdict.verdict # "INCONCLUSIVE"
             /\ verdict.confidence = Cent

\* hive alone at 29.995, next to unavailable results: score 30.00, UNCERTAIN
C29_Witness ==
  /\ op = "verifyContent"
  /\ ~ValidCredentials
  /\ OnePresent
  /\ Len(detectorResults) >= 2
  /\ OnlyScore = 5999
  /\ ensembleResult.score = 30 * Cent
  /\ verdict.verdict = "UNCERTAIN"

\* the caller has kept a call whose arguments equal those of the call just made
SameArguments ==
  /\ op = "verifyContent"
  /\ earlier # NoCall
  /\ earlier.provenance = provenanceResult
  /\ earlier.results = detectorResults

ThrownRun == checkedProvenance = DefaultProvenance

\* the run in flight ends with this step
RunEnds == pc # "none" /\ pc' = "none"

\* C23 as stated: if the provenance collaborator throws during a verify run,
\* the run continues to the detection stage with the unverified default
\* provenance, ends in stage 'complete' with a verdict other than
\* VERIFIED_AUTHENTIC, and sets no error.
C23_Original ==
  /\ [][(pc = "checkProvenance" /\ pc' # pc /\ ThrownRun') =>
          /\ stage' = "detection"
          /\ error' = error]_vars
  /\ [][(RunEnds /\ ThrownRun') =>
          /\ stage' = "complete"
          /\ ResultShown'
          /\ verifyResult'.verdict.verdict # "VERIFIED_AUTHENTIC"
          /\ error' = error]_vars

\* C23 amended: if the provenance collaborator throws during a verify run,
\* the failure is recovered locally: the step that catches it goes on to the
\* detection stage with the unverified default provenance and leaves the
\* error state as it is; when that run ends, it ends either in stage
\* 'complete' with a verdict other than VERIFIED_AUTHENTIC that rests on the
\* detectors (the heuristics score the empty EXIF at 30), or in stage 'idle'
\* with the image-processing error of the base64 conversion, never with an
\* error of the provenance check.
C23_ProvenanceFailureRecovered ==
  /\ [][(pc = "checkProvenance" /\ pc' # pc /\ ThrownRun') =>
          /\ stage' = "detection"
          /\ pc' = "fileToBase64"
          /\ loading'
          /\ ~checkedProvenance'.hasVerifiedProvenance
          /\ error' = error
          /\ verifyResult' = verifyResult]_vars
  /\ [][(RunEnds /\ ThrownRun') =>
          \/ /\ stage' = "complete"
             /\ ResultShown'
             /\ verifyResult'.provenance = DefaultProvenance
             /\ verifyResult'.verdict.verdict
                  \in VerdictValues \ {"VERIFIED_AUTHENTIC"}
             /\ ~verifyResult'.verdict.summary.hasProvenance
             /\ verifyResult'.detectors[4] = Result("heuristics", 30 * Unit, 60)
             /\ error' = error
          \/ /\ stage' = "idle"
             /\ error' \in Base64Errors
             /\ verifyResult' = verifyResult]_vars

\* the provenance check threw, no detector is configured, and the run is
\* complete on the heuristics alone: UNCERTAIN at score 30, no error
C23_Witness ==
  /\ ThrownRun
  /\ pc = "none"
  /\ stage = "complete"
  /\ ResultShown
  /\ verifyResult.provenance = DefaultProvenance
  /\ verifyResult.verdict.verdict = "UNCERTAIN"
  /\ verifyResult.verdict.summary.score = 30 * Cent
  /\ error = NoError

\* what the page shows of a verification: the selected file with the result
Displayed == <<file, verifyResult>>

\* C25 as stated: under every interleaving of file drop, reset and completion
\* of an in-flight verify run, a result is displayed only if it was computed
\* from the currently selected file: whenever a step leaves a result on
\* display for a selected file and has changed the file or the result, it is
\* the run on that very file publishing its result.
C25_ResultOfSelectedFile ==
  [][(ResultShown' /\ file' # NoFile /\ Displayed' # Displayed) =>
        /\ file' = file
        /\ verifyResult' # verifyResult
        /\ runFile = file]_vars

\* a verify run starts with this step
RunStarts == pc = "none" /\ pc' = "checkProvenance"

\* the last run ended with an error that is still on display, and the file
\* it worked on is still the selected one
FailedOnSelectedFile ==
  /\ pc = "none"
  /\ error \in Base64Errors
  /\ file # NoFile
  /\ runFile = file

\* C26 as stated: after a run has ended in stage 'idle' with an error and
\* loading = false, no further run is started for the same file until the
\* user drops a new file, submits a URL or resets: the pipeline does not
\* retry by itself.
C26_NoRetryAfterError ==
  /\ [](FailedOnSelectedFile => (stage = "idle" /\ ~loading))
  /\ [][RunStarts => ~FailedOnSelectedFile]_vars

\* the stage changes a run may make
StageMoves ==
  {<<"idle", "provenance">>, <<"provenance", "detection">>,
   <<"provenance", "complete">>, <<"detection", "complete">>,
   <<"provenance", "idle">>, <<"detection", "idle">>, <<"complete", "idle">>}

\* What holds of the runs: a run in flight keeps loading true, and the
\* auto-verify effect starts a run only when none is in flight.
OneRunInFlight ==
  /\ [](pc # "none" => loading)
  /\ [][pc' = "checkProvenance" => (pc = "none" /\ ~loading) \/ pc' = pc]_vars

\* C27 as stated: at most one verify run is in flight at any time, whatever
\* sequence of file drops, URL submissions and resets occurs, and the stage
\* only moves idle -> provenance -> (detection ->) complete, or back to idle.
C27_OneRunStagesInOrder ==
  /\ [](pc # "none" => loading)
  /\ [][stage' # stage => <<stage, stage'>> \in StageMoves]_vars

\* the page renders VerdictDisplay for the result of the selected file
VerdictDisplayed == file # NoFile /\ ResultShown

\* C28 as stated: the verdict display marks a result as 'C2PA / Verified'
\* only when the verdict is VERIFIED_AUTHENTIC: for credentials that are
\* present but not valid the verdict is decided by the detectors and the
\* display does not present the content as provenance-verified.
C28_VerifiedOnlyWhenVerified ==
  VerdictDisplayed =>
    LET cell == DetectorsUsedCell(verifyResult.verdict.summary)
    IN /\ cell.caption = "Verified" => verifyResult.verdict.verdict = "VERIFIED_AUTHENTIC"
       /\ cell.value = "C2PA" => verifyResult.verdict.verdict = "VERIFIED_AUTHENTIC"

\* the signals of analyzeHeuristics that fire on imageData, with their weights
FiredSignals(imageData) ==
  LET exif == imageData.exif
      emptyExif == exif.isNull \/ exif.keys = {}
  IN {s \in {<<"missing_exif", 15>>, <<"no_camera_info", 10>>,
             <<"ai_typical_dimensions", 20>>, <<"no_gps", 5>>,
             <<"ai_software_detected", 50>>} :
        \/ s[1] = "missing_exif" /\ emptyExif
        \/ s[1] = "no_camera_info" /\ ~exif.isNull /\ {"Make", "Model"} \cap exif.keys = {}
        \/ s[1] = "ai_typical_dimensions"
             /\ \E d \in aiDimensions : imageData.width = d[1] /\ imageData.height = d[2]
        \/ s[1] = "no_gps" /\ ~exif.isNull /\ "GPSLatitude" \notin exif.keys
        \/ s[1] = "ai_software_detected" /\ ~exif.isNull /\ exif.Software \in aiSoftware}

CappedSum(signals) ==
  LET total == SumOver(signals, [s \in signals |-> s[2]])
  IN IF total > 100 THEN 100 ELSE total

\* C30: whenever runAllDetectors resolves, its result list contains the
\* heuristics result with a present score in [0,100] equal to the capped sum
\* of the fired signal weights, so the available set is never empty after a
\* completed fan-out and the verdict is never the no-signal INCONCLUSIVE; the
\* heuristics result is there from the start of the fan-out, for every
\* combination of configured and unconfigured API keys.
C30_HeuristicsAlwaysAvailable ==
  /\ pc = "runAllDetectors" =>
       /\ calls["heuristics"].state = "settled"
       /\ calls["heuristics"].value.score \in 0..(100 * Unit)
  /\ (ResultShown /\ verifyResult.detectors # <<>>) =>
       LET heuristics == verifyResult.detectors[Len(verifyResult.detectors)]
           final == verifyResult.verdict
       IN /\ heuristics.source = "heuristics"
          /\ heuristics.score \in 0..(100 * Unit)
          /\ heuristics.score
               = CappedSum(FiredSignals(verifyResult.provenance.imageData)) * Unit
          /\ final.summary.detectorsUsed >= 1
          /\ final.summary.score # NULL
          /\ final.auditTrail.method # "ensemble-fallback"
          /\ final.recommendation # "MANUAL REVIEW - Automated analysis unavailable."

\* no API key is configured and the image has EXIF and AI-typical
\* dimensions: the verdict rests on the heuristics alone, at score 35
C30_Witness ==
  /\ apiKeys = {}
  /\ ResultShown
  /\ Len(verifyResult.detectors) = 4
  /\ \A i \in 1..3 : verifyResult.detectors[i].score = NULL
  /\ verifyResult.detectors[4].score = 35 * Unit
  /\ verifyResult.verdict.summary.detectorsUsed = 1
  /\ verifyResult.verdict.verdict = "UNCERTAIN"
====
